---- MODULE Spec2Model ----
(***************************************************************************)
(* similarity_search of the DocumentDB two-way recall notebooks            *)
(* (hybrid-retrieval/genai-docdb-similiarity-search-gaming_en.ipynb and    *)
(* its Chinese twin): translation and embedding of the query, the vector   *)
(* and the text search, the merge of the two hit lists, the deduplication  *)
(* capped at two items, and the per-item recommendation and image fetch.   *)
(*                                                                         *)
(* One call of similarity_search is a sequence of steps; pc is the line    *)
(* the call is at.  A hit is a record [name, score, src]: the document's   *)
(* name, the text score (text hits) or the distance (vector hits) the      *)
(* index ranked it by, and the cursor it came from.  The function has no   *)
(* try/except: an exception of any call it makes ends the call.            *)
(***************************************************************************)
EXTENDS Integers, Sequences, FiniteSets, TLC

VARIABLES
    search_text,  \* the argument of the call (line 327)
    pc,           \* where the call is: a line of similarity_search, "idle", "done" or "raised"
    calls,        \* number of calls of similarity_search made so far
    ok_calls,     \* external retrieval calls of this call that have returned normally
    error,        \* the call whose exception ended this call, or "none"
    r,            \* hits of the vector search cursor (line 341)
    tsr,          \* hits of the text search cursor (line 344, read at line 351)
    merged_list,  \* line 350
    unique_set,   \* line 357
    result,       \* line 358
    idx,          \* position of `for item in merged_list` (line 359)
    gi,           \* position of `for x in result` (line 365)
    gen_log,      \* the recommendation calls of this call: [item, prompt, ok]
    fetch_log,    \* the image fetches of this call: [item, ok]
    pc2,          \* where a second, concurrent call is
    r2,           \* the locals of the second call's frame
    tsr2,
    merged_list2,
    unique_set2,
    result2,
    idx2

vars == <<search_text, pc, calls, ok_calls, error, r, tsr, merged_list, unique_set, result,
          idx, gi, gen_log, fetch_log,
          pc2, r2, tsr2, merged_list2, unique_set2, result2, idx2>>

req2 == <<pc2, r2, tsr2, merged_list2, unique_set2, result2, idx2>>

locals == <<r, tsr, merged_list, unique_set, result, idx, gi>>

(* ------------------------------ bounds --------------------------------- *)

NumNames == 4      \* distinct document names in the collection
MaxLex == 3        \* longest text search hit list
ScNames == 3       \* names, when scores vary
ScLex == 2         \* longest text search hit list, when scores vary
MaxScore == 2      \* scores and distances range over 1..MaxScore, when they vary
RepNames == 2      \* names, when calls are repeated
RepLex == 2        \* longest text search hit list, when calls are repeated
MaxCalls == 2      \* calls of similarity_search, when calls are repeated
ConcNames == 2     \* names, when two calls run at the same time
ConcLex == 1       \* longest text search hit list, when two calls run at the same time

(* --------------------------- program constants ------------------------- *)

K == 2             \* "k": 2 of the vectorSearch query
Cap == 2           \* len(result)<2

(* ------------------------------- hits ---------------------------------- *)

SeqsUpTo(S, n) == UNION {[1..m -> S] : m \in 0..n}

\* .sort({"score": {"$meta": "textScore"}}): best text score first.
Descending(h) == \A i \in 1..(Len(h) - 1) : h[i].score >= h[i + 1].score

\* vectorSearch with "similarity": "euclidean": nearest first.
Ascending(h) == \A i \in 1..(Len(h) - 1) : h[i].score <= h[i + 1].score

\* What the text cursor can yield: any documents matching the query, several
\* of them possibly of one name (insert_one never checks the name), ranked by
\* text score.
TextHits(nn, maxlen, maxscore) ==
    {h \in SeqsUpTo([name : 1..nn, score : 1..maxscore, src : {"text"}], maxlen) :
        Descending(h)}

\* What the vector cursor can yield: at most K documents, ranked by distance.
VectorHits(nn, maxscore) ==
    {h \in SeqsUpTo([name : 1..nn, score : 1..maxscore, src : {"vector"}], K) :
        Ascending(h)}

RetrievalCalls == {"translate", "embed", "vector_search", "text_search"}

\* The texts a cell can pass: the empty string, and a query such as the one
\* of the last cell.
Queries == {"", "Multiplayer Shooting Game"}

(* ----------------------------- pure steps ------------------------------ *)

\* str(item['name']): a name is a str (line 367 concatenates it to a str),
\* and str of a str is that str.
Str(n) == n

\* Lines 351-352 and 354-355: merged_list.append(doc) for each doc of a cursor.
AppendAll(ml, hits) == ml \o hits

AppendAllInFront(ml, hits) == hits \o ml

AppendNone(ml, hits) == ml

\* The hits of the cursor go right behind the first item already listed.
AppendAllAfterFirst(ml, hits) ==
    IF ml = <<>> THEN hits ELSE <<Head(ml)>> \o hits \o Tail(ml)

\* A merge by score: the hits of the cursor go in front of the first listed
\* item that scores worse.
RECURSIVE InsertByScore(_, _)
InsertByScore(ml, x) ==
    IF ml = <<>> THEN <<x>>
    ELSE IF x.score < Head(ml).score THEN <<x>> \o ml
    ELSE <<Head(ml)>> \o InsertByScore(Tail(ml), x)

RECURSIVE AppendAllByScore(_, _)
AppendAllByScore(ml, hits) ==
    IF hits = <<>> THEN ml
    ELSE AppendAllByScore(InsertByScore(ml, Head(hits)), Tail(hits))

MergeCursor(ml, hits) == AppendAll(ml, hits)

\* Line 357: unique_set = set()
StaleUniqueSet == unique_set

NewUniqueSet == {}

\* Line 358: result = []
NewResult == <<>>

\* A unique_set kept at module level: the names the other call has emitted
\* are in it too.
Seen2Shared == unique_set2 \cup unique_set

\* The unique_set the second call tests names against at line 361: the local
\* of its own frame.
Seen2 == unique_set2

\* Lines 360-363, one pass of the loop body.
DedupBody(item, us, res) ==
    LET dict_str == Str(item.name) IN
    IF dict_str \notin us /\ Len(res) < Cap
    THEN [unique_set |-> us \cup {dict_str}, result |-> Append(res, item)]
    ELSE [unique_set |-> us, result |-> res]

DedupBodyCapOffByOne(item, us, res) ==
    LET dict_str == Str(item.name) IN
    IF dict_str \notin us /\ Len(res) <= Cap
    THEN [unique_set |-> us \cup {dict_str}, result |-> Append(res, item)]
    ELSE [unique_set |-> us, result |-> res]

DedupBodyNoMark(item, us, res) ==
    LET dict_str == Str(item.name) IN
    IF dict_str \notin us /\ Len(res) < Cap
    THEN [unique_set |-> us, result |-> Append(res, item)]
    ELSE [unique_set |-> us, result |-> res]

\* Keeps the later occurrence of a name in place of the earlier one.
DedupBodyLastWins(item, us, res) ==
    LET dict_str == Str(item.name) IN
    IF dict_str \notin us /\ Len(res) < Cap
    THEN [unique_set |-> us \cup {dict_str}, result |-> Append(res, item)]
    ELSE [unique_set |-> us,
          result |-> [i \in 1..Len(res) |->
                         IF res[i].name = item.name THEN item ELSE res[i]]]

DedupStep(item, us, res) == DedupBody(item, us, res)

\* Lines 359-363 over a whole list.
RECURSIVE DedupFold(_, _, _)
DedupFold(ml, us, res) ==
    IF ml = <<>> THEN res
    ELSE LET s == DedupStep(Head(ml), us, res) IN
         DedupFold(Tail(ml), s.unique_set, s.result)

\* Lines 350-363 as a function of the two hit lists.
Merge(lex, vec) ==
    DedupFold(MergeCursor(MergeCursor(<<>>, lex), vec), {}, <<>>)

\* x["descriptions"], x["recommendation"]: the value document x holds in
\* field f.
Field(x, f) == <<f, x>>

\* The prompt built from `item`, the variable the dedup loop leaves bound to
\* the last element of merged_list, instead of from x.
PromptOfLeftoverItem(x) ==
    LET item == merged_list[Len(merged_list)] IN
    [name |-> item.name,
     descriptions |-> Field(item, "descriptions"),
     recommendation |-> Field(item, "recommendation")]

\* Line 367: multi_var_prompt.format(instructions="game name:" + x["name"]
\* + ".\nGame Description:" + x["descriptions"]
\* + ".\nHardware configuration:" + x["recommendation"])
Prompt(x) ==
    [name |-> x.name,
     descriptions |-> Field(x, "descriptions"),
     recommendation |-> Field(x, "recommendation")]

\* A loop that is also left once the cap is reached, as by a break.
ExhaustedOrCapReached(i, ml, res) == i > Len(ml) \/ Len(res) >= Cap

\* Line 359: `for item in merged_list` ends when the list is exhausted; the
\* loop body has no break.
Exhausted(i, ml, res) == i > Len(ml)

\* How a call that ran through `for x in result` ends.
RaisesOnNoResult(res) == IF res = <<>> THEN "raised" ELSE "done"

LoopExit(res) == "done"

(* ------------------------------- actions ------------------------------- *)

Init ==
    /\ search_text = ""
    /\ pc = "idle"
    /\ calls = 0
    /\ ok_calls = {}
    /\ error = "none"
    /\ r = <<>>
    /\ tsr = <<>>
    /\ merged_list = <<>>
    /\ unique_set = {}
    /\ result = <<>>
    /\ idx = 1
    /\ gi = 1
    /\ gen_log = <<>>
    /\ fetch_log = <<>>
    /\ pc2 = "idle"
    /\ r2 = <<>>
    /\ tsr2 = <<>>
    /\ merged_list2 = <<>>
    /\ unique_set2 = {}
    /\ result2 = <<>>
    /\ idx2 = 1

\* An uncaught exception of call c: the call ends where it is.
Raise(c) ==
    /\ pc' = "raised"
    /\ error' = c
    /\ UNCHANGED <<req2, search_text, calls, ok_calls, locals, gen_log, fetch_log>>

\* The vector search fails and an empty hit list stands in for it.
DegradeVector ==
    /\ pc' = "tsearch"
    /\ r' = <<>>
    /\ UNCHANGED <<req2, search_text, calls, ok_calls, error, tsr, merged_list, unique_set, result,
                   idx, gi, gen_log, fetch_log>>

VectorSearchFails == Raise("vector_search")

\* A cell calls similarity_search(q): line 327 binds search_text, and the
\* body starts at line 328 whatever the text is.
Enter(q) ==
    /\ search_text' = q
    /\ pc' = "translate"
    /\ calls' = calls + 1
    /\ ok_calls' = {}
    /\ error' = "none"
    /\ gen_log' = <<>>
    /\ fetch_log' = <<>>
    /\ UNCHANGED <<req2, locals>>

Call ==
    /\ pc = "idle"
    /\ \E q \in Queries : Enter(q)

\* A later cell calls similarity_search again, in the same kernel.
Again ==
    /\ pc \in {"done", "raised"}
    /\ calls < MaxCalls
    /\ \E q \in Queries : Enter(q)

\* Line 328: en_response = timer_llm_claude3(...)
Translate ==
    /\ pc = "translate"
    /\ \/ /\ pc' = "embed"
          /\ ok_calls' = ok_calls \cup {"translate"}
          /\ UNCHANGED <<req2, search_text, calls, error, locals, gen_log, fetch_log>>
       \/ Raise("translate")

\* Lines 330-331: res1 = generate_embeddings(search_text)
Embed ==
    /\ pc = "embed"
    /\ \/ /\ pc' = "vsearch"
          /\ ok_calls' = ok_calls \cup {"embed"}
          /\ UNCHANGED <<req2, search_text, calls, error, locals, gen_log, fetch_log>>
       \/ Raise("embed")

\* Lines 333-341: r = collection.aggregate([...]); aggregate runs the command.
VectorSearch(VH) ==
    /\ pc = "vsearch"
    /\ \/ \E hits \in VH :
            /\ r' = hits
            /\ pc' = "tsearch"
            /\ ok_calls' = ok_calls \cup {"vector_search"}
            /\ UNCHANGED <<req2, search_text, calls, error, tsr, merged_list, unique_set, result,
                           idx, gi, gen_log, fetch_log>>
       \/ VectorSearchFails

\* Lines 344-347: tsr = collection.find(...).sort(...) builds a cursor and
\* sends nothing; the query runs when line 351 first reads the cursor.
TextSearch ==
    /\ pc = "tsearch"
    /\ pc' = "merge_text"
    /\ UNCHANGED <<req2, search_text, calls, ok_calls, error, locals, gen_log, fetch_log>>

\* Lines 350-352: merged_list = []; for doc in tsr: merged_list.append(doc).
\* The first read of the cursor sends the query: it raises, or the hits (one
\* batch of them) arrive and are appended.
MergeText(TH) ==
    /\ pc = "merge_text"
    /\ \/ \E hits \in TH :
            /\ tsr' = hits
            /\ merged_list' = MergeCursor(<<>>, hits)
            /\ pc' = "merge_vector"
            /\ ok_calls' = ok_calls \cup {"text_search"}
            /\ UNCHANGED <<req2, search_text, calls, error, r, unique_set, result, idx, gi,
                           gen_log, fetch_log>>
       \/ Raise("text_search")

\* Lines 354-355: for doc in r: merged_list.append(doc); the at most K hits
\* came with the reply to aggregate.
MergeVector ==
    /\ pc = "merge_vector"
    /\ merged_list' = MergeCursor(merged_list, r)
    /\ pc' = "dedup_init"
    /\ UNCHANGED <<req2, search_text, calls, ok_calls, error, r, tsr, unique_set, result, idx, gi,
                   gen_log, fetch_log>>

\* Lines 357-358
DedupInit ==
    /\ pc = "dedup_init"
    /\ unique_set' = NewUniqueSet
    /\ result' = NewResult
    /\ idx' = 1
    /\ pc' = "dedup"
    /\ UNCHANGED <<req2, search_text, calls, ok_calls, error, r, tsr, merged_list, gi, gen_log,
                   fetch_log>>

\* Lines 359-363, one item of merged_list
DedupItem ==
    /\ pc = "dedup"
    /\ ~Exhausted(idx, merged_list, result)
    /\ LET s == DedupStep(merged_list[idx], unique_set, result) IN
          /\ unique_set' = s.unique_set
          /\ result' = s.result
    /\ idx' = idx + 1
    /\ UNCHANGED <<req2, search_text, pc, calls, ok_calls, error, r, tsr, merged_list, gi, gen_log,
                   fetch_log>>

\* Line 359 finds merged_list exhausted; line 365 starts on result.
DedupExit ==
    /\ pc = "dedup"
    /\ Exhausted(idx, merged_list, result)
    /\ gi' = 1
    /\ pc' = "generate"
    /\ UNCHANGED <<req2, search_text, calls, ok_calls, error, r, tsr, merged_list, unique_set,
                   result, idx, gen_log, fetch_log>>

\* Lines 365-369: the prompt of x = result[gi] and the call of the model
Generate ==
    /\ pc = "generate"
    /\ gi <= Len(result)
    /\ \/ /\ gen_log' = Append(gen_log, [item |-> result[gi],
                                    prompt |-> Prompt(result[gi]),
                                    ok |-> TRUE])
          /\ pc' = "fetch"
          /\ UNCHANGED <<req2, search_text, calls, ok_calls, error, locals, fetch_log>>
       \/ /\ gen_log' = Append(gen_log, [item |-> result[gi],
                                    prompt |-> Prompt(result[gi]),
                                    ok |-> FALSE])
          /\ pc' = "raised"
          /\ error' = "generate"
          /\ UNCHANGED <<req2, search_text, calls, ok_calls, locals, fetch_log>>

\* Lines 370-375: requests.get(url), io.imread(url) and the plot
Fetch ==
    /\ pc = "fetch"
    /\ \/ /\ fetch_log' = Append(fetch_log, [item |-> result[gi], ok |-> TRUE])
          /\ gi' = gi + 1
          /\ pc' = "generate"
          /\ UNCHANGED <<req2, search_text, calls, ok_calls, error, r, tsr, merged_list, unique_set,
                         result, idx, gen_log>>
       \/ /\ fetch_log' = Append(fetch_log, [item |-> result[gi], ok |-> FALSE])
          /\ pc' = "raised"
          /\ error' = "fetch"
          /\ UNCHANGED <<req2, search_text, calls, ok_calls, locals, gen_log>>

\* Line 365 finds result exhausted: the function returns None.
Return ==
    /\ pc = "generate"
    /\ gi > Len(result)
    /\ pc' = LoopExit(result)
    /\ UNCHANGED <<req2, search_text, calls, ok_calls, error, locals, gen_log, fetch_log>>

Next ==
    \/ Call
    \/ Translate
    \/ Embed
    \/ VectorSearch(VectorHits(NumNames, 1))
    \/ TextSearch
    \/ MergeText(TextHits(NumNames, MaxLex, 1))
    \/ MergeVector
    \/ DedupInit
    \/ DedupItem
    \/ DedupExit
    \/ Generate
    \/ Fetch
    \/ Return

\* One call of similarity_search, over every pair of hit lists of up to
\* NumNames names; the code never reads a score, and here all hits tie.
Spec == Init /\ [][Next]_vars

NextScored ==
    \/ Call
    \/ Translate
    \/ Embed
    \/ VectorSearch(VectorHits(ScNames, MaxScore))
    \/ TextSearch
    \/ MergeText(TextHits(ScNames, ScLex, MaxScore))
    \/ MergeVector
    \/ DedupInit
    \/ DedupItem
    \/ DedupExit
    \/ Generate
    \/ Fetch
    \/ Return

\* One call of similarity_search, over hit lists whose text scores and
\* distances vary in every way the two indexes' orderings allow.
SpecScored == Init /\ [][NextScored]_vars

NextRepeat ==
    \/ Call
    \/ Again
    \/ Translate
    \/ Embed
    \/ VectorSearch(VectorHits(RepNames, 1))
    \/ TextSearch
    \/ MergeText(TextHits(RepNames, RepLex, 1))
    \/ MergeVector
    \/ DedupInit
    \/ DedupItem
    \/ DedupExit
    \/ Generate
    \/ Fetch
    \/ Return

\* Up to MaxCalls calls, one after another in one kernel.  No variable is
\* cleared between calls: what a call leaves in them is what a later call
\* would find if it read one before assigning it.
SpecRepeat == Init /\ [][NextRepeat]_vars


(* ---------------- a second call, running at the same time -------------- *)

\* The second call's lines 327-358: its own r, tsr and merged_list are bound
\* from the hits its searches return, its own unique_set and result are new.
Start2(VH, TH) ==
    /\ pc2 = "idle"
    /\ \E vhits \in VH, thits \in TH :
          /\ r2' = vhits
          /\ tsr2' = thits
          /\ merged_list2' = MergeCursor(MergeCursor(<<>>, thits), vhits)
    /\ unique_set2' = NewUniqueSet
    /\ result2' = NewResult
    /\ idx2' = 1
    /\ pc2' = "dedup"
    /\ UNCHANGED <<search_text, pc, calls, ok_calls, error, locals, gen_log,
                   fetch_log>>

\* The second call's lines 359-363, one item of its merged_list
DedupItem2 ==
    /\ pc2 = "dedup"
    /\ ~Exhausted(idx2, merged_list2, result2)
    /\ LET s == DedupStep(merged_list2[idx2], Seen2, result2) IN
          /\ unique_set2' = s.unique_set
          /\ result2' = s.result
    /\ idx2' = idx2 + 1
    /\ UNCHANGED <<pc2, r2, tsr2, merged_list2>>
    /\ UNCHANGED <<search_text, pc, calls, ok_calls, error, locals, gen_log,
                   fetch_log>>

\* The second call's line 359 finds its merged_list exhausted.
DedupExit2 ==
    /\ pc2 = "dedup"
    /\ Exhausted(idx2, merged_list2, result2)
    /\ pc2' = "generate"
    /\ UNCHANGED <<r2, tsr2, merged_list2, unique_set2, result2, idx2>>
    /\ UNCHANGED <<search_text, pc, calls, ok_calls, error, locals, gen_log,
                   fetch_log>>

NextConc ==
    \/ Call
    \/ Translate
    \/ Embed
    \/ VectorSearch(VectorHits(ConcNames, 1))
    \/ TextSearch
    \/ MergeText(TextHits(ConcNames, ConcLex, 1))
    \/ MergeVector
    \/ DedupInit
    \/ DedupItem
    \/ DedupExit
    \/ Start2(VectorHits(ConcNames, 1), TextHits(ConcNames, ConcLex, 1))
    \/ DedupItem2
    \/ DedupExit2

\* Two calls of similarity_search whose steps interleave in any order, each
\* followed through its merge; the locals of a call live in its own frame.
SpecConc == Init /\ [][NextConc]_vars

(* ------------------------ vocabulary of the claims --------------------- *)

Min(a, b) == IF a < b THEN a ELSE b

NamesOf(h) == {h[i].name : i \in DOMAIN h}

NameSeq(h) == [i \in DOMAIN h |-> h[i].name]

\* The dedup loop of the current call has run to its end.
MergeDone ==
    \/ pc \in {"generate", "fetch", "done"}
    \/ pc = "raised" /\ error \in {"generate", "fetch"}

\* The dedup loop of the current call is running or has run.
InOrPastDedup == pc = "dedup" \/ MergeDone

NoRepeat(s) == \A i, j \in DOMAIN s : i # j => s[i] # s[j]

\* The first occurrence of each name of h, in the order of h.
RECURSIVE KeepFirst(_, _)
KeepFirst(h, seen) ==
    IF h = <<>> THEN <<>>
    ELSE IF Head(h).name \in seen THEN KeepFirst(Tail(h), seen)
    ELSE <<Head(h)>> \o KeepFirst(Tail(h), seen \cup {Head(h).name})

\* The distinct names of a sequence of names, in order of first occurrence.
RECURSIVE DistinctInOrder(_, _)
DistinctInOrder(ns, seen) ==
    IF ns = <<>> THEN <<>>
    ELSE IF Head(ns) \in seen THEN DistinctInOrder(Tail(ns), seen)
    ELSE <<Head(ns)>> \o DistinctInOrder(Tail(ns), seen \cup {Head(ns)})

FirstN(s, n) == SubSeq(s, 1, Min(n, Len(s)))

\* Position of the first item named n in h, 0 when there is none.
Pos(n, h) ==
    IF n \in NamesOf(h)
    THEN CHOOSE i \in DOMAIN h :
            h[i].name = n /\ \A j \in 1..(i - 1) : h[j].name # n
    ELSE 0

Occurrences(n, h) == Cardinality({i \in DOMAIN h : h[i].name = n})

(* ------------------------------- claims -------------------------------- *)

\* C1: the merged result holds exactly min(cap, number of distinct names of
\* the two hit lists) items, the cap being the 2 of line 361; while the loop
\* runs its length exceeds neither the cap nor the number of distinct names.
C1_LengthIsMinCapDistinct ==
    LET distinct == Cardinality(NamesOf(tsr) \cup NamesOf(r)) IN
    /\ InOrPastDedup => Len(result) <= Cap /\ Len(result) <= distinct
    /\ MergeDone => Len(result) = Min(Cap, distinct)

\* C1 witness: three distinct names, one of them in both lists and one twice
\* in the text hits, merged into the two items the cap allows.
C1_Witness ==
    /\ MergeDone
    /\ Cardinality(NamesOf(tsr) \cup NamesOf(r)) = 3
    /\ NamesOf(tsr) \cap NamesOf(r) # {}
    /\ ~NoRepeat(NameSeq(tsr))
    /\ Len(result) = Cap

\* C2: at every step of the dedup loop and after it, no two items of result
\* have the same name, and unique_set is the set of their names.
C2_NoDuplicateName ==
    InOrPastDedup =>
        /\ NoRepeat(NameSeq(result))
        /\ unique_set = NamesOf(result)

\* C2 witness: in the middle of the loop, past an item whose name repeats in
\* the text hits and in the vector hits, with result already holding an item.
C2_Witness ==
    /\ pc = "dedup"
    /\ idx = 3
    /\ idx <= Len(merged_list)
    /\ merged_list[1].name = merged_list[2].name
    /\ merged_list[1].name \in NamesOf(r)
    /\ Len(result) = 1

\* C3: the merged result is the first Cap items of the text hits followed by
\* the vector hits with only the first occurrence of each name kept; no item
\* of the vector cursor precedes an item of the text cursor in it; text hits
\* <<1, 2, 3>> with vector hits <<2, 4>> give <<1, 2>>.
C3_LexicalThenVectorOrder ==
    MergeDone =>
        /\ result = FirstN(KeepFirst(tsr \o r, {}), Cap)
        /\ \A i, j \in DOMAIN result :
              result[i].src = "vector" /\ result[j].src = "text" => j < i
        /\ NameSeq(tsr) = <<1, 2, 3>> /\ NameSeq(r) = <<2, 4>>
              => NameSeq(result) = <<1, 2>>

\* C3 witness: the scenario of the claim, merged.
C3_Witness ==
    /\ MergeDone
    /\ NameSeq(tsr) = <<1, 2, 3>>
    /\ NameSeq(r) = <<2, 4>>
    /\ NameSeq(result) = <<1, 2>>

C5_OneSourceEmpty ==
    MergeDone =>
        /\ tsr = <<>> =>
              /\ NameSeq(result) = FirstN(DistinctInOrder(NameSeq(r), {}), Cap)
              /\ \A i \in DOMAIN result : result[i] \in {r[j] : j \in DOMAIN r}
        /\ r = <<>> =>
              /\ result = FirstN(KeepFirst(tsr, {}), Cap)
              /\ Len(result) <= Cap

\* C5 witness: no text hit, two vector hits of different names, both kept in
\* their order.
C5_Witness ==
    /\ MergeDone
    /\ tsr = <<>>
    /\ Len(r) = 2
    /\ r[1].name # r[2].name
    /\ result = r

\* C6: when both searches return no hit, the result is empty, no
\* recommendation is asked for, no image is fetched, and the call is not in
\* an error state: from line 365 it can only return.
C6_BothEmpty ==
    (ok_calls = RetrievalCalls /\ tsr = <<>> /\ r = <<>>) =>
        /\ pc # "raised"
        /\ error = "none"
        /\ result = <<>>
        /\ gen_log = <<>>
        /\ fetch_log = <<>>
        /\ pc = "generate" => ENABLED Return /\ ~ENABLED Generate

\* C6 witness: a call whose searches both returned nothing has returned.
C6_Witness ==
    /\ pc = "done"
    /\ ok_calls = RetrievalCalls
    /\ tsr = <<>>
    /\ r = <<>>
    /\ result = <<>>

\* C7: in every call, whatever the earlier calls left behind, the dedup loop
\* starts from an empty unique_set and an empty result, and the merged result
\* is the function Merge of the two hit lists of this call.
C7_MergeIsPure ==
    /\ (pc = "dedup" /\ idx = 1) => unique_set = {} /\ result = <<>>
    /\ pc = "dedup" =>
          result = DedupFold(SubSeq(merged_list, 1, idx - 1), {}, <<>>)
    /\ MergeDone => result = Merge(tsr, r)

\* C7 witness: a second call has emitted its first item, after a first call
\* that emitted at least one (gi is still where the first call left it).
C7_Witness ==
    /\ calls = 2
    /\ pc = "dedup"
    /\ idx = 2
    /\ gi > 1
    /\ Len(result) = 1

\* C8: the names of the merged result are a function of the names of the
\* text hits and of the vector hits in their order, whatever the scores and
\* distances; a vector hit is never ahead of a text hit.
C8_ScoresNeverCompared ==
    MergeDone =>
        /\ NameSeq(result) =
              FirstN(DistinctInOrder(NameSeq(tsr) \o NameSeq(r), {}), Cap)
        /\ \A i, j \in DOMAIN result :
              i < j => ~(result[i].src = "vector" /\ result[j].src = "text")

\* C8 witness: a vector hit at the best distance, of a name of its own, left
\* out behind two text hits that differ in score.
C8_Witness ==
    /\ MergeDone
    /\ Len(tsr) >= 2
    /\ tsr[1].name # tsr[2].name
    /\ tsr[1].score # tsr[2].score
    /\ r # <<>>
    /\ r[1].name \notin NamesOf(tsr)
    /\ r[1].score = 1
    /\ result = <<tsr[1], tsr[2]>>

\* C9: the merge and everything after it run only when the translation, the
\* embedding, the vector search and the text search have all returned; a
\* call ended by the failure of one of them has merged nothing, asked for no
\* recommendation, and does nothing more.
C9_RetrievalFailureFailsRequest ==
    /\ pc = "merge_text" => {"translate", "embed", "vector_search"} \subseteq ok_calls
    /\ pc \in {"merge_vector", "dedup_init", "dedup", "generate", "fetch", "done"}
          => ok_calls = RetrievalCalls
    /\ gen_log # <<>> => ok_calls = RetrievalCalls
    /\ (pc = "raised" /\ error \in RetrievalCalls) =>
          /\ error \notin ok_calls
          /\ merged_list = <<>>
          /\ result = <<>>
          /\ gen_log = <<>>
          /\ ~ENABLED Next

\* C9 witness: the text search failed after the vector search had returned
\* hits; the call has ended with nothing merged.
C9_Witness ==
    /\ pc = "raised"
    /\ error = "text_search"
    /\ r # <<>>
    /\ merged_list = <<>>

\* C10: when a call has ended with a merged result of two candidates and the
\* recommendation call for the first one failed, the recommendation call for
\* the second one was made and succeeded.
C10_GenerationFailureScopedPerCandidate ==
    (pc \in {"done", "raised"} /\ Len(result) = 2
        /\ gen_log # <<>> /\ ~gen_log[1].ok)
    => (Len(gen_log) = 2 /\ gen_log[2].ok)

\* C11: when a call has ended after the fetch of a candidate's image failed,
\* the merged result is still the merge of the two hit lists and a
\* recommendation was generated for every candidate of it, those after the
\* failing one included.
C11_AssetFailureIsCosmetic ==
    (pc \in {"done", "raised"}
        /\ \E i \in DOMAIN fetch_log : ~fetch_log[i].ok)
    => /\ result = Merge(tsr, r)
       /\ Len(gen_log) = Len(result)
       /\ \A i \in DOMAIN gen_log : gen_log[i].item = result[i] /\ gen_log[i].ok

\* The external calls this call of similarity_search has made so far: those
\* that returned, and the one that raised.
Invoked ==
    ok_calls \cup ({error} \cap RetrievalCalls)
        \cup (IF gen_log # <<>> THEN {"generate"} ELSE {})
        \cup (IF fetch_log # <<>> THEN {"fetch"} ELSE {})

\* C12: a call with the empty string invokes no translation, no embedding and
\* no search: once past its entry it has ended, rejected as InvalidQuery.
C12_EmptyQueryRejected ==
    (calls > 0 /\ search_text = "") =>
        /\ Invoked = {}
        /\ pc # "translate" => pc = "raised" /\ error = "InvalidQuery"

\* C14 as claimed: once Cap items have been emitted, no element after the one
\* that produced the last emission is examined; with fewer than Cap distinct
\* names the scan ends at the end of the list.
C14_ScanStopsAtCap ==
    /\ (InOrPastDedup /\ Len(result) = Cap) =>
          idx - 1 <= Pos(result[Cap].name, merged_list)
    /\ (MergeDone /\ Len(result) < Cap) => idx = Len(merged_list) + 1

\* C14 as amended: the loop examines the elements of merged_list once each,
\* in order, and always through to the last one; what it has emitted after
\* idx - 1 elements is the dedup of those elements, and no element after the
\* one that produced the Cap-th emission is emitted.  On <<1, 2, 3, 2, 4>>
\* all five elements are examined and 4 is not emitted.
C14_ScanRunsToEndEmitsNothingPastCap ==
    /\ InOrPastDedup =>
          /\ idx \in 1..(Len(merged_list) + 1)
          /\ result = DedupFold(SubSeq(merged_list, 1, idx - 1), {}, <<>>)
          /\ Len(result) >= Cap =>
                \A i \in DOMAIN result :
                    Pos(result[i].name, merged_list)
                        <= Pos(result[Cap].name, merged_list)
    /\ MergeDone =>
          /\ idx = Len(merged_list) + 1
          /\ NameSeq(merged_list) = <<1, 2, 3, 2, 4>> => NameSeq(result) = <<1, 2>>

\* C14 witness: the scenario of the claim, scanned to the end: five elements
\* examined, the first two emitted.
C14_Witness ==
    /\ MergeDone
    /\ NameSeq(tsr) = <<1, 2, 3>>
    /\ NameSeq(r) = <<2, 4>>
    /\ idx = 6
    /\ NameSeq(result) = <<1, 2>>

\* C15: while no call has failed, the recommendation calls made so far are
\* those for the first candidates of the merged result, one each and in its
\* order, each with the prompt of that candidate's own name, descriptions and
\* recommendation fields; none is made before the dedup loop has ended; a call
\* that has returned made exactly one per candidate, at most Cap.
C15_OneGenerationPerCandidateInOrder ==
    /\ gen_log # <<>> => MergeDone
    /\ (MergeDone /\ error = "none") =>
          /\ Len(gen_log) = (IF pc = "fetch" THEN gi ELSE gi - 1)
          /\ Len(gen_log) <= Len(result)
          /\ \A i \in DOMAIN gen_log :
                /\ gen_log[i].ok
                /\ gen_log[i].item = result[i]
                /\ gen_log[i].prompt.name = result[i].name
                /\ gen_log[i].prompt.descriptions = <<"descriptions", result[i]>>
                /\ gen_log[i].prompt.recommendation = <<"recommendation", result[i]>>
    /\ pc = "done" => Len(gen_log) = Len(result) /\ Len(gen_log) <= Cap

\* C15 witness: a call that returned after generating for both candidates, a
\* text hit then a vector hit, out of a longer merged list.
C15_Witness ==
    /\ pc = "done"
    /\ Len(merged_list) > 2
    /\ Len(gen_log) = 2
    /\ gen_log[1].item.src = "text"
    /\ gen_log[2].item.src = "vector"
    /\ gen_log[1].prompt.name # gen_log[2].prompt.name

\* C16: when the text hits hold at least Cap (two) distinct names, the merged
\* result is their first two first occurrences, whatever the vector hits; an
\* item of a name the text search did not find is in the result only when the
\* text hits hold fewer than two distinct names, and then behind all of them.
C16_VectorOnlyFillsWhatLexicalLeaves ==
    MergeDone =>
        LET nlex == Cardinality(NamesOf(tsr)) IN
        /\ nlex >= Cap => result = FirstN(KeepFirst(tsr, {}), Cap)
        /\ \A i \in DOMAIN result :
              result[i].name \notin NamesOf(tsr) =>
                  /\ nlex < Cap
                  /\ i > nlex
                  /\ \A n \in NamesOf(tsr) : Pos(n, result) \in 1..(i - 1)

\* C16 witness: text hits of two distinct names behind a repeated one, and
\* two vector hits of other names, none of which made it into the result.
C16_Witness ==
    /\ MergeDone
    /\ Len(tsr) = 3
    /\ tsr[1].name = tsr[2].name
    /\ tsr[3].name # tsr[1].name
    /\ Len(r) = 2
    /\ NamesOf(r) \cap NamesOf(tsr) = {}
    /\ result = <<tsr[1], tsr[3]>>

\* C13: under every interleaving of the steps of two calls, each call's dedup
\* loop holds at every step the dedup of the elements of its own merged list
\* it has examined, and each call's merged result is Merge of its own two hit
\* lists, which is what the call produces when it runs alone.
C13_ConcurrentCallsDoNotInterfere ==
    /\ pc = "dedup" =>
          /\ result = DedupFold(SubSeq(merged_list, 1, idx - 1), {}, <<>>)
          /\ unique_set = NamesOf(result)
    /\ pc2 = "dedup" =>
          /\ result2 = DedupFold(SubSeq(merged_list2, 1, idx2 - 1), {}, <<>>)
          /\ unique_set2 = NamesOf(result2)
    /\ MergeDone => result = Merge(tsr, r)
    /\ pc2 = "generate" => result2 = Merge(tsr2, r2)

\* C13 witness: the first call is in the middle of its loop with one name
\* emitted; the second call, given other hit lists, has run its whole loop
\* and emitted that name too.
C13_Witness ==
    /\ pc = "dedup"
    /\ pc2 = "generate"
    /\ idx = 2
    /\ idx <= Len(merged_list)
    /\ Len(result) = 1
    /\ Len(result2) = 2
    /\ result[1].name = result2[2].name
    /\ merged_list # merged_list2

====
